---- MODULE Spec2Model ----
(***************************************************************************)
(* puzzlefs builder: the streaming content-defined chunker FastCDCWrapper  *)
(* (builder/src/fastcdc_fs.rs), a fixed window of `max` bytes in front of  *)
(* the fastcdc crate's FastCDC iterator.                                   *)
(*                                                                         *)
(* Sizes are scaled down: bytes are drawn from Bytes, the gear table has   *)
(* one entry per byte value, and chunk sizes are a handful of bytes.  The  *)
(* crate's range assertions on min/avg/max (which only bound the absolute  *)
(* sizes) are outside the model; the configurations below keep avg >= 3 so *)
(* that both masks have at least one bit, as the crate's ranges do.        *)
(***************************************************************************)
EXTENDS Integers, Sequences, FiniteSets, TLC

VARIABLES
    \* FastCDCWrapper's fields
    min, avg, max, buf, buf_offset, global_offset, chunks,
    \* the call in progress: where it stands, write()'s argument and local
    \* write_offset, the value write() last returned, and the vector the
    \* caller passed to get_pending_chunks
    pc, write, write_offset, ret, pending,
    \* history: every byte passed to write, every chunk pushed by a render
    \* pass, every chunk handed out by get_pending_chunks, the number of chunks
    \* pushed up to the latest drain and up to the one before it, the last
    \* operation that returned, whether finish was called, how many times
    \* write was called after finish, and whether write was called never (0),
    \* once (1) or more often (2)
    written, emitted, delivered, mark, prevMark, last, finished, late, calls

vars == << min, avg, max, buf, buf_offset, global_offset, chunks,
           pc, write, write_offset, ret, pending,
           written, emitted, delivered, mark, prevMark, last, finished, late, calls >>

\* ---------------------------------------------------------------- bounds
\* total number of bytes the caller appends over the life of one instance
MaxTotal == 7
\* number of write calls the caller issues after finish
MaxLate == 1
Bytes == {0, 1}

\* {min, avg, max} triples handed to new_with_sizes.  The first three satisfy
\* 0 < min <= avg <= max (the last of them with min = avg = max); the others
\* break the ordering (avg > max, min > avg).
Configs == { <<1, 4, 4>>, <<2, 3, 4>>, <<3, 3, 3>>, <<1, 4, 3>>, <<4, 3, 4>> }

ValidConfig(mn, av, mx) == 0 < mn /\ mn <= av /\ av <= mx

\* ------------------------------------------------- sequences of bytes
Min2(a, b) == IF a <= b THEN a ELSE b

\* &s[a..b] of a Rust slice (0-based, half open)
Slice(s, a, b) == SubSeq(s, a + 1, b)

\* all byte strings of length 0..n
RECURSIVE ByteStrings(_)
ByteStrings(n) ==
    IF n = 0 THEN { <<>> }
    ELSE LET shorter == ByteStrings(n - 1)
         IN  shorter \cup { Append(s, b) : s \in { t \in shorter : Len(t) = n - 1 }, b \in Bytes }

\* ------------------------------------------------ Boundary Detector
\* fastcdc::TABLE, one entry per byte value
TABLE == <<3, 8>>

\* fastcdc::logarithm2: (value as f64).log2().round()
logarithm2(value) ==
    CHOOSE k \in 0..31 : 2^(2 * k) <= 2 * value * value /\ 2 * value * value < 2^(2 * k + 2)

\* fastcdc::mask
mask(bits) == 2^bits - 1

ceil_div(x, y) == (x + y - 1) \div y

\* fastcdc::center_size
center_size(average, minimum, source_size) ==
    LET offset0 == minimum + ceil_div(minimum, 2)
        offset  == IF offset0 > average THEN average ELSE offset0
        size    == average - offset
    IN  IF size > source_size THEN source_size ELSE size

\* hash = (hash >> 1) + TABLE[index].  The table's entries are below 2^31,
\* so the u32 sum never wraps.
gear(hash, byte) == (hash \div 2) + TABLE[byte + 1]

\* the second loop of cut: the "easier" judgement, mask_l, up to source_len2.
\* Result: the offset just past the cut byte, or -1 when the loop runs out.
RECURSIVE cut_loop2(_, _, _, _, _)
cut_loop2(source, source_offset, source_len2, hash, mask_l) ==
    IF source_offset < source_len2
    THEN LET h == gear(hash, source[source_offset + 1])
         IN  IF h % (mask_l + 1) = 0
             THEN source_offset + 1
             ELSE cut_loop2(source, source_offset + 1, source_len2, h, mask_l)
    ELSE -1

\* the first loop of cut: the "harder" judgement, mask_s, up to source_len1,
\* falling through to the second loop with the hash carried over.
RECURSIVE cut_loop1(_, _, _, _, _, _, _)
cut_loop1(source, source_offset, source_len1, source_len2, hash, mask_s, mask_l) ==
    IF source_offset < source_len1
    THEN LET h == gear(hash, source[source_offset + 1])
         IN  IF h % (mask_s + 1) = 0
             THEN source_offset + 1
             ELSE cut_loop1(source, source_offset + 1, source_len1, source_len2, h, mask_s, mask_l)
    ELSE cut_loop2(source, source_offset, source_len2, hash, mask_l)

\* FastCDC::cut: the length of the next chunk at source_offset, 0 for none yet
cut(source, mn, av, mx, eof, source_offset, source_size0) ==
    IF source_size0 <= mn
    THEN IF ~eof THEN 0 ELSE source_size0
    ELSE LET source_size == IF source_size0 > mx THEN mx ELSE source_size0
             bits        == logarithm2(av)
             source_len1 == source_offset + center_size(av, mn, source_size)
             source_len2 == source_offset + source_size
             found       == cut_loop1(source, source_offset + mn, source_len1, source_len2,
                                      0, mask(bits + 1), mask(bits - 1))
         IN  IF found >= 0 THEN found - source_offset
             ELSE IF ~eof /\ source_size < mx THEN 0
             ELSE source_size

\* Iterator::next, collected: the chunks (offset, length) of source
RECURSIVE collect(_, _, _, _, _, _, _)
collect(source, mn, av, mx, eof, bytes_processed, bytes_remaining) ==
    IF bytes_remaining = 0 THEN <<>>
    ELSE LET chunk_size == cut(source, mn, av, mx, eof, bytes_processed, bytes_remaining)
         IN  IF chunk_size = 0 THEN <<>>
             ELSE <<[offset |-> bytes_processed, length |-> chunk_size]>>
                  \o collect(source, mn, av, mx, eof,
                             bytes_processed + chunk_size, bytes_remaining - chunk_size)

\* FastCDC::with_eof(source, min, avg, max, eof).collect()
FastCDC_with_eof(source, mn, av, mx, eof) == collect(source, mn, av, mx, eof, 0, Len(source))

\* FastCDC::new(source, min, avg, max).collect(): eof = true
FastCDC_new(source, mn, av, mx) == FastCDC_with_eof(source, mn, av, mx, TRUE)

\* ------------------------------------------------------ FastCDCWrapper
\* the wrapper as a value: what the methods read and write through &mut self
Self ==
    [min |-> min, avg |-> avg, max |-> max, buf |-> buf, buf_offset |-> buf_offset,
     global_offset |-> global_offset, chunks |-> chunks]

\* new_with_sizes: buf is vec![0_u8; max]
new_with_sizes(mn, av, mx) ==
    [min |-> mn, avg |-> av, max |-> mx, buf |-> [i \in 1..mx |-> 0], buf_offset |-> 0,
     global_offset |-> 0, chunks |-> <<>>]

\* (variant) the detector's window-relative offset, not fixed up
fixed_offset_relative(g, chunk) == chunk.offset

\* the offset of a pushed chunk: relative to everything that has been written
fixed_offset(g, chunk) == g + chunk.offset

\* the ChunkWithData pushed for one chunk of the detector, `used` bytes into buf
ChunkWithData(b, g, chunk, used) ==
    [offset |-> fixed_offset(g, chunk), length |-> chunk.length,
     data |-> Slice(b, used, used + chunk.length)]

\* the for loop of render_chunks: the ChunkWithData values it pushes, in order
RECURSIVE pushed(_, _, _, _)
pushed(b, g, cs, used) ==
    IF cs = <<>> THEN <<>>
    ELSE <<ChunkWithData(b, g, Head(cs), used)>>
         \o pushed(b, g, Tail(cs), used + Head(cs).length)

\* `used` after the for loop
RECURSIVE used_by(_)
used_by(cs) == IF cs = <<>> THEN 0 ELSE Head(cs).length + used_by(Tail(cs))

\* (variant) the used bytes drained off the front of the vector, which shrinks
shift_left_drain(b, used, leftover) == SubSeq(b, used + 1, Len(b))

\* (variant) the leftover bytes stay where they are
shift_left_none(b, used, leftover) == b

\* the leftover bytes copied to the front of buf; the rest of buf is untouched
shift_left(b, used, leftover) ==
    [i \in 1..Len(b) |-> IF i <= leftover THEN b[used + i] ELSE b[i]]

\* the cursor after a render pass that used `used` bytes
leftover_of(cursor, used) == cursor - used

\* (variant) global_offset = used
global_after_set(g, used) == used

\* self.global_offset += used
global_after(g, used) == g + used

\* render_chunks(&mut self, eof)
render_chunks(w, eof) ==
    LET cs == FastCDC_with_eof(Slice(w.buf, 0, w.buf_offset), w.min, w.avg, w.max, eof)
    IN  IF cs = <<>> THEN w
        ELSE LET used     == used_by(cs)
                 leftover == leftover_of(w.buf_offset, used)
             IN  [w EXCEPT !.chunks        = w.chunks \o pushed(w.buf, w.global_offset, cs, 0),
                           !.global_offset = global_after(w.global_offset, used),
                           !.buf           = shift_left(w.buf, used, leftover),
                           !.buf_offset    = leftover]

\* (variant) the tail is flushed by hand, a tail of no bytes included
finish_push_tail(w) ==
    [w EXCEPT !.chunks        = w.chunks \o <<[offset |-> w.global_offset, length |-> w.buf_offset,
                                                data |-> Slice(w.buf, 0, w.buf_offset)]>>,
              !.global_offset = w.global_offset + w.buf_offset,
              !.buf_offset    = 0]

\* (variant) a pass that does not know the stream has ended
finish_not_eof(w) == render_chunks(w, FALSE)

\* finish(&mut self)
finish(w) == render_chunks(w, TRUE)

\* (variant) return after the first pass, as io::Write allows
loop_done_short(wr, wo) == wo = Len(wr) \/ wo > 0

\* write(): the negated loop test, write_offset == write.len()
loop_done(wr, wo) == wo = Len(wr)

\* (variant) the capacity of the window, not what is free of it
room_for_capacity(w, wr, wo) == Min2(Len(w.buf), Len(wr) - wo)

\* write(): how many bytes this pass of the loop copies
room_for(w, wr, wo) == Min2(Len(w.buf) - w.buf_offset, Len(wr) - wo)

\* (variant) the copy lands at the front of buf, not at the cursor
copy_in_front(w, wr, wo) ==
    LET room == room_for(w, wr, wo)
        cur  == Slice(wr, wo, wo + room)
    IN  [w |-> [w EXCEPT !.buf = [i \in 1..Len(w.buf) |->
                                    IF i <= Len(cur) THEN cur[i] ELSE w.buf[i]],
                         !.buf_offset = w.buf_offset + Len(cur)],
         write_offset |-> wo + Len(cur)]

\* write(): the first half of the loop body, the guarded copy into buf
copy_in(w, wr, wo) ==
    LET room == room_for(w, wr, wo)
        cur  == Slice(wr, wo, wo + room)
    IN  IF w.buf_offset + Len(cur) <= Len(w.buf)
        THEN [w |-> [w EXCEPT !.buf = [i \in 1..Len(w.buf) |->
                                          IF w.buf_offset < i /\ i <= w.buf_offset + Len(cur)
                                          THEN cur[i - w.buf_offset] ELSE w.buf[i]],
                              !.buf_offset = w.buf_offset + Len(cur)],
              write_offset |-> wo + Len(cur)]
        ELSE [w |-> w, write_offset |-> wo]

\* write(): is the buffer full?
is_full(w) == w.buf_offset = Len(w.buf)

\* (variant) every pass in write treats the window as the end of the stream
chunk_if_full_eof(w) == IF is_full(w) THEN render_chunks(w, TRUE) ELSE w

\* write(): the second half of the loop body
chunk_if_full(w) == IF is_full(w) THEN render_chunks(w, FALSE) ELSE w

\* write(), run to its end on a wrapper value.  A pass of the loop that
\* changes nothing is the loop spinning for ever: returned is FALSE then.
RECURSIVE write_run(_, _, _)
write_run(w, wr, wo) ==
    IF loop_done(wr, wo) THEN [w |-> w, ret |-> wo, returned |-> TRUE]
    ELSE LET c == copy_in(w, wr, wo)
             n == chunk_if_full(c.w)
         IN  IF n = w /\ c.write_offset = wo
             THEN [w |-> w, ret |-> wo, returned |-> FALSE]
             ELSE write_run(n, wr, c.write_offset)

\* (variant) the destination is extended, not replaced
cloned_from_extend(dest, cs) == dest \o cs

\* get_pending_chunks: pending.clone_from(&self.chunks)
cloned_from(dest, cs) == cs

\* (variant) self.chunks is not cleared
cleared_not(cs) == cs

\* get_pending_chunks: self.chunks.clear()
cleared(cs) == <<>>

\* the (offset, length) pairs of a list of chunks
Cuts(cs) == [i \in 1..Len(cs) |-> [offset |-> cs[i].offset, length |-> cs[i].length]]

\* ------------------------------------------------------------- actions
Init ==
    /\ min = 0 /\ avg = 0 /\ max = 0
    /\ buf = <<>> /\ buf_offset = 0 /\ global_offset = 0 /\ chunks = <<>>
    /\ pc = "new" /\ write = <<>> /\ write_offset = 0 /\ ret = -1 /\ pending = <<>>
    /\ written = <<>> /\ emitted = <<>> /\ delivered = <<>>
    /\ mark = 0 /\ prevMark = 0 /\ last = "none" /\ finished = FALSE /\ late = 0 /\ calls = 0

\* the fields of the wrapper become those of the value n; a render pass
\* inside it pushed the chunks n has beyond those of self
Becomes(n) ==
    /\ min' = n.min /\ avg' = n.avg /\ max' = n.max
    /\ buf' = n.buf /\ buf_offset' = n.buf_offset
    /\ global_offset' = n.global_offset /\ chunks' = n.chunks
    /\ emitted' = emitted \o SubSeq(n.chunks, Len(chunks) + 1, Len(n.chunks))

\* FastCDCWrapper::new_with_sizes(min, avg, max)
NewWithSizes ==
    /\ pc = "new"
    /\ \E c \in Configs : Becomes(new_with_sizes(c[1], c[2], c[3]))
    /\ pc' = "idle" /\ last' = "new"
    /\ UNCHANGED << write, write_offset, ret, pending,
                    written, delivered, mark, prevMark, finished, late, calls >>

\* write(&mut self, write): entry, write_offset = 0
WriteCall ==
    /\ pc = "idle"
    /\ finished => late < MaxLate
    /\ \E bytes \in ByteStrings(MaxTotal - Len(written)) :
          /\ write' = bytes
          /\ written' = written \o bytes
    /\ write_offset' = 0 /\ ret' = -1 /\ pc' = "loop"
    /\ late' = (IF finished THEN late + 1 ELSE late)
    /\ calls' = Min2(calls + 1, 2)
    /\ UNCHANGED << min, avg, max, buf, buf_offset, global_offset, chunks, pending,
                    emitted, delivered, mark, prevMark, last, finished >>

\* write(): the loop test holds; copy as much of this write as we can
WriteCopy ==
    /\ pc = "loop" /\ ~loop_done(write, write_offset)
    /\ LET c == copy_in(Self, write, write_offset)
       IN  Becomes(c.w) /\ write_offset' = c.write_offset
    /\ pc' = "check"
    /\ UNCHANGED << write, ret, pending,
                    written, delivered, mark, prevMark, last, finished, late, calls >>

\* write(): is our buffer full? chunk it; then back to the loop test
WriteChunk ==
    /\ pc = "check"
    /\ Becomes(chunk_if_full(Self))
    /\ pc' = "loop"
    /\ UNCHANGED << write, write_offset, ret, pending,
                    written, delivered, mark, prevMark, last, finished, late, calls >>

\* write(): the loop test fails; Ok(write_offset)
WriteReturn ==
    /\ pc = "loop" /\ loop_done(write, write_offset)
    /\ ret' = write_offset
    /\ pc' = "idle" /\ last' = "write"
    /\ UNCHANGED << min, avg, max, buf, buf_offset, global_offset, chunks,
                    write, write_offset, pending,
                    written, emitted, delivered, mark, prevMark, finished, late, calls >>

\* finish(&mut self)
Finish ==
    /\ pc = "idle"
    /\ Becomes(finish(Self))
    /\ finished' = TRUE /\ last' = "finish"
    /\ write' = <<>> /\ write_offset' = 0 /\ ret' = -1
    /\ UNCHANGED << pc, pending, written, delivered, mark, prevMark, late, calls >>

\* get_pending_chunks(&mut self, pending): clone_from, then clear
GetPendingChunks ==
    /\ pc = "idle"
    /\ pending' = cloned_from(pending, chunks)
    /\ chunks' = cleared(chunks)
    /\ delivered' = delivered \o pending'
    /\ prevMark' = mark /\ mark' = Len(emitted)
    /\ last' = "drain"
    /\ write' = <<>> /\ write_offset' = 0 /\ ret' = -1
    /\ UNCHANGED << min, avg, max, buf, buf_offset, global_offset, pc,
                    written, emitted, finished, late, calls >>

Next ==
    \/ NewWithSizes
    \/ WriteCall
    \/ WriteCopy
    \/ WriteChunk
    \/ WriteReturn
    \/ Finish
    \/ GetPendingChunks

Spec == Init /\ [][Next]_vars

\* write() is synchronous code: once called it keeps running
FairSpec == Spec /\ WF_vars(WriteCopy) /\ WF_vars(WriteChunk) /\ WF_vars(WriteReturn)

\* ------------------------------------------------------------- claims
\* an instance exists and its sizes satisfy 0 < min <= avg <= max
Valid == pc # "new" /\ ValidConfig(min, avg, max)

\* the caller kept to the protocol: appends, then finish, and no write since
Proper == pc = "idle" /\ finished /\ late = 0

\* the drain that just returned was the first to hand out any chunk
FirstDrain == last = "drain" /\ prevMark = 0

\* every chunk pushed so far: those handed out, then those still pending
AllChunks == delivered \o chunks

RECURSIVE SumLengths(_)
SumLengths(cs) == IF cs = <<>> THEN 0 ELSE Head(cs).length + SumLengths(Tail(cs))

\* append(S) ; finish on a fresh instance with the sizes of this one
SingleAppend == write_run(new_with_sizes(min, avg, max), written, 0)

\* C1 (write-granularity invariance): after append* ; finish ; drain, however
\* the bytes were split over the write calls, the drained (offset, length)
\* list is the one a single write of all the bytes followed by finish and
\* drain gives on a fresh instance with the same sizes.
WriteGranularityInvariance ==
    (Valid /\ Proper /\ FirstDrain) =>
        /\ SingleAppend.returned
        /\ Cuts(pending) = Cuts(finish(SingleAppend.w).chunks)

\* C1's case: the bytes came in several writes, more of them than the window
\* holds, and several chunks came out
WriteGranularityWitness ==
    /\ Valid /\ Proper /\ FirstDrain /\ calls = 2
    /\ Len(written) > max + 2 /\ Len(pending) >= 3

\* C2 (streaming equals whole-buffer): after append(S) ; finish ; drain the
\* drained (offset, length) list equals, element for element, the list of
\* FastCDC::new over the whole of S with the same sizes.
StreamingEqualsWholeBuffer ==
    (Valid /\ Proper /\ FirstDrain /\ calls = 1) =>
        Cuts(pending) = FastCDC_new(written, min, avg, max)

\* C2's case: one write of more bytes than the window holds, several chunks
StreamingWitness ==
    /\ Valid /\ Proper /\ FirstDrain /\ calls = 1
    /\ Len(written) > max + 2 /\ Len(pending) >= 3

\* C3 (coverage): after append* ; finish the lengths of all the chunks
\* produced sum to the number of bytes appended, and the window is empty.
Coverage ==
    Proper => SumLengths(AllChunks) = Len(written) /\ buf_offset = 0

\* C3's case: a finish that had a tail to flush after several render passes
CoverageWitness ==
    /\ Proper /\ Valid /\ last = "finish" /\ Len(written) = MaxTotal
    /\ Len(AllChunks) >= 3 /\ AllChunks[Len(AllChunks)].length < min

\* chunk[0].offset == 0 and chunk[i].offset + chunk[i].length == chunk[i+1].offset
Contiguous(cs) ==
    /\ cs # <<>> => cs[1].offset = 0
    /\ \A i \in 1..(Len(cs) - 1) : cs[i].offset + cs[i].length = cs[i + 1].offset

\* C4 (contiguity): in every state the chunks emitted so far, drained and
\* pending in emission order, start at offset 0 and follow one another
\* without gap or overlap.
Contiguity == Contiguous(AllChunks)

\* C4's case: chunks of several render passes, some drained and some pending
ContiguityWitness ==
    /\ Len(delivered) >= 2 /\ Len(chunks) >= 1 /\ global_offset > max
    /\ delivered[Len(delivered)].offset > 0

\* C5 (size bounds): on a valid instance used as append* ; finish, every
\* chunk is at most max long and every chunk but the last of the stream is
\* at least min long.
SizeBounds ==
    (Valid /\ late = 0) =>
        \A i \in 1..Len(AllChunks) :
            /\ AllChunks[i].length <= max
            /\ (i < Len(AllChunks) \/ ~finished) => AllChunks[i].length >= min

\* C5's case: a stream that ended in a chunk shorter than min after a chunk
\* of max bytes
SizeBoundsWitness ==
    /\ Valid /\ Proper /\ Len(AllChunks) >= 2
    /\ AllChunks[Len(AllChunks)].length < min
    /\ \E i \in 1..Len(AllChunks) : AllChunks[i].length = max

\* C6 (bounded window): at every step, also in the middle of a write, the
\* window's capacity is max and the cursor is within it.
BoundedWindow ==
    pc # "new" => Len(buf) = max /\ buf_offset <= Len(buf)

\* C6's case: in the middle of a write of more bytes than the window holds,
\* the window full and input left
BoundedWindowWitness ==
    /\ pc = "check" /\ Len(write) > max /\ buf_offset = max
    /\ write_offset < Len(write) /\ global_offset > 0

\* C7 (append accepts everything): on a valid instance a write call that
\* returns, returns the length of its argument, and every byte passed so far
\* is then either in a chunk or in the window.
AppendAcceptsAll ==
    (Valid /\ pc = "idle" /\ last = "write") =>
        /\ ret = Len(write)
        /\ global_offset + buf_offset = Len(written)

\* C7's case: a write longer than the window into a window that already held
\* bytes has returned
AppendAcceptsAllWitness ==
    /\ Valid /\ pc = "idle" /\ last = "write" /\ calls = 2
    /\ Len(write) > max /\ Len(written) > Len(write) /\ ret = Len(write)

\* C8 (drain contract): after get_pending_chunks the caller's vector holds
\* exactly the chunks pushed since the previous drain, in the order they were
\* pushed, and self.chunks is empty.
DrainContract ==
    last = "drain" =>
        /\ pending = SubSeq(emitted, prevMark + 1, mark)
        /\ pc = "idle" => chunks = <<>>

\* C8's case: a drain of several chunks after an earlier drain that handed
\* out others
DrainContractWitness ==
    /\ last = "drain" /\ pc = "idle" /\ prevMark > 0 /\ mark > prevMark + 1
    /\ Len(pending) >= 2

\* C9 (drain idempotence): a drain with no chunk pushed since the previous
\* drain, or on a fresh instance, hands out nothing.
DrainIdempotence ==
    (last = "drain" /\ mark = prevMark) => pending = <<>>

\* C9's case: a second drain right after one that handed out chunks
DrainIdempotenceWitness ==
    /\ last = "drain" /\ pc = "idle" /\ mark = prevMark /\ mark >= 2
    /\ Len(delivered) = mark /\ pending = <<>>

\* C10 (configuration validated at construction): no instance whose sizes
\* break 0 < min <= avg <= max gets to run write or finish.
ConfigurationValidated ==
    (pc \in {"loop", "check"} \/ finished) => ValidConfig(min, avg, max)

\* C11 (append after finish is rejected): once finish has been called on a
\* valid instance no later step copies bytes into the window, pushes a chunk
\* or advances the global offset.
AppendAfterFinishRejected ==
    [][(finished /\ ValidConfig(min, avg, max))
          => UNCHANGED << buf, buf_offset, global_offset, emitted >>]_vars

\* C12 (empty stream): when no byte was appended, by no write at all or by
\* writes of no bytes, finish pushes no chunk and the drain after it hands
\* out none.
EmptyStream ==
    (Proper /\ written = <<>>) =>
        /\ emitted = <<>> /\ chunks = <<>>
        /\ last = "drain" => pending = <<>>

\* C12's case: writes of no bytes, finish, then drain
EmptyStreamWitness ==
    /\ Valid /\ Proper /\ written = <<>> /\ calls = 2 /\ last = "drain"

\* the bytes of all chunks in order
RECURSIVE Concat(_)
Concat(cs) == IF cs = <<>> THEN <<>> ELSE Head(cs).data \o Concat(Tail(cs))

\* C13 (data round-trip): every chunk's data is `length` bytes long and equals
\* the bytes appended at [offset, offset + length); after append* ; finish the
\* data of all chunks, concatenated in order, is the appended stream.
DataRoundTrip ==
    /\ \A i \in 1..Len(AllChunks) :
          /\ Len(AllChunks[i].data) = AllChunks[i].length
          /\ AllChunks[i].data =
                Slice(written, AllChunks[i].offset, AllChunks[i].offset + AllChunks[i].length)
    /\ Proper => Concat(AllChunks) = written

\* C13's case: a stream of both byte values, longer than the window, cut into
\* chunks of several render passes with different contents
DataRoundTripWitness ==
    /\ Valid /\ Proper /\ Len(written) = MaxTotal /\ Len(AllChunks) >= 3
    /\ \E i, j \in 1..Len(written) : written[i] # written[j]
    /\ AllChunks[Len(AllChunks)].data # AllChunks[1].data

RendersWhenFull ==
    (Valid /\ min < max) =>
        /\ pc = "idle" => buf_offset < max
        /\ (pc = "loop" /\ ~loop_done(write, write_offset)) => buf_offset < Len(buf)

\* a step in which get_pending_chunks ran
DrainStep == pc = "idle" /\ pc' = "idle" /\ last' = "drain"

\* C16 (draining never changes chunking): however drains are interleaved with
\* the writes and the finish, the drain results in call order followed by what
\* is still pending are the chunks in the order they were pushed, none lost,
\* repeated or reordered; after a drain that follows finish, the drain results
\* together are the chunks of the same stream drained once after finish; and a
\* drain leaves the window, its cursor and the global offset as they are.
DrainingPreservesChunking ==
    /\ [](delivered \o chunks = emitted)
    /\ []((Proper /\ last = "drain") =>
             /\ SingleAppend.returned
             /\ delivered = finish(SingleAppend.w).chunks)
    /\ [][DrainStep => UNCHANGED << buf, buf_offset, global_offset >>]_vars

\* C16's case: drains before finish handed out several chunks of different
\* lengths, and the drain after finish handed out the rest
DrainingWitness ==
    /\ Proper /\ last = "drain" /\ Valid
    /\ 0 < prevMark /\ prevMark < mark /\ Len(delivered) = mark
    /\ Len(delivered) > Len(pending) + 1 /\ delivered[2].offset < pending[1].offset
    /\ Len(pending) + prevMark = mark /\ prevMark >= 2
    /\ \E k \in 1..(prevMark - 1) : delivered[k].length # delivered[k + 1].length

\* C17 (global offset bookkeeping): global_offset is 0 on a fresh instance,
\* equals the sum of the lengths of all chunks pushed so far, never decreases,
\* and changes only in a step that pushes at least one chunk.
GlobalOffsetBookkeeping ==
    /\ []((pc = "idle" /\ last = "new") => global_offset = 0)
    /\ [](global_offset = SumLengths(emitted))
    /\ [][/\ global_offset' >= global_offset
          /\ global_offset' # global_offset => Len(emitted') > Len(emitted)]_vars

\* C17's case: several render passes have advanced the offset past the window
\* size, some chunks drained, bytes left in the window
GlobalOffsetWitness ==
    /\ Valid /\ pc = "idle" /\ global_offset > max /\ Len(emitted) >= 2
    /\ Len(delivered) >= 1 /\ buf_offset > 0 /\ ~finished

\* C18 (the window holds exactly the unfinalized suffix): between operations
\* global_offset + buf_offset is the number of bytes appended, and
\* buf[0..buf_offset) is the appended stream from global_offset on.
WindowHoldsSuffix ==
    pc = "idle" =>
        /\ global_offset + buf_offset = Len(written)
        /\ Slice(buf, 0, buf_offset) = Slice(written, global_offset, Len(written))

\* C18's case: after a write, leftover bytes of both values sit at the front
\* of the window behind chunks already pushed
WindowHoldsSuffixWitness ==
    /\ Valid /\ pc = "idle" /\ last = "write" /\ global_offset > 0 /\ buf_offset >= 2
    /\ buf[1] # buf[2] /\ Len(written) > max

\* C19 (finish is idempotent): once finish has returned and nothing was
\* written since, the window is empty and another finish changes nothing:
\* no chunk, the same global offset, window and pending chunks.
FinishIdempotent ==
    Proper => buf_offset = 0 /\ finish(Self) = Self

\* C19's case: finish has flushed a tail behind chunks of earlier passes, and
\* its chunks are still pending
FinishIdempotentWitness ==
    /\ Valid /\ Proper /\ last = "finish" /\ Len(chunks) >= 2
    /\ Len(written) > max /\ chunks[Len(chunks)].length < max

\* C20 (the bounds check of the copy is always true): at every pass of write's
\* loop the bytes to copy fit behind the cursor, so the copy is made and both
\* cursors advance by its length.
CopyGuardHolds ==
    (pc = "loop" /\ ~loop_done(write, write_offset)) =>
        LET room == room_for(Self, write, write_offset)
        IN  /\ buf_offset + room <= Len(buf)
            /\ copy_in(Self, write, write_offset).write_offset = write_offset + room
            /\ copy_in(Self, write, write_offset).w.buf_offset = buf_offset + room

\* C20's case: a pass that starts with bytes in the window and more input
\* left than the window has room for
CopyGuardWitness ==
    /\ Valid /\ pc = "loop" /\ buf_offset > 0 /\ buf_offset < Len(buf)
    /\ Len(write) - write_offset > Len(buf) - buf_offset

====
